---- MODULE Spec2Model ----
(***************************************************************************)
(* A model of hyndman_khandakar.py: the HyndmanKhandakar object, its       *)
(* differencing-degree estimator (_get_differencing_degree / _test), the   *)
(* AICc correction (_correct_aic), the candidate evaluator (_fit) and the  *)
(* search (find), in exhaustive and in stepwise mode.                      *)
(*                                                                         *)
(* The collaborators (statsmodels' adfuller, kpss and ARIMA(...).fit) are  *)
(* the environment: a unit-root test answers a p-value, a fit answers      *)
(* either ValueError or a fitted model (aic, moduli of the AR roots,       *)
(* moduli of the MA roots); each answer is drawn from a small set.         *)
(*                                                                         *)
(* Numbers.  p-values are in hundredths (alpha = 0.05 is 5), root moduli   *)
(* in thousandths (conditions[1] = 1.001 is 1001).  An AICc is an exact    *)
(* rational [kind |-> "fin", num, den] with den > 0, or numpy's inf / nan. *)
(* Python tuples and lists are 0-based, TLA+ sequences 1-based:            *)
(* conditions[0] is conditions[1] here, order[0], order[1], order[2] are   *)
(* order[1], order[2], order[3].                                           *)
(***************************************************************************)
EXTENDS Integers, Sequences, FiniteSets, TLC

(* ------------------------------ bounds -------------------------------- *)

\* find is called at most MaxRuns times on one object.
MaxRuns == 2

\* conditions[0] (the upper bound for p and q) is drawn from 0..MaxMaxOrder,
\* in both modes; the default, 5, is modelled in the default mode (stepwise).
MaxMaxOrder == 1

\* At most MaxFail fits of orders without a negative term raise ValueError
\* within one call of find.
MaxFail == 1

(* --------------------------- program constants ------------------------ *)

\* alpha=0.05, the default of __init__, in hundredths.
alpha == 5

\* conditions[0] = 5, the default of __init__.
default_max_order == 5

\* conditions[1] = 1.001, the default of __init__, in thousandths.
min_root_modulus == 1001

\* _test stops differencing at self.d == 2.
max_d == 2

(* --------------------------- the environment -------------------------- *)

\* len(self.ts): a series too short for the larger orders, and the length
\* of the series of the repository's test (nsample=100).
SeriesLengths == {4, 100}

\* (conditions, full_search) as the caller may pass them.
Configurations ==
  {<<(<<m, min_root_modulus>>), f>> : m \in 0..MaxMaxOrder, f \in BOOLEAN}
  \cup {<<(<<default_max_order, min_root_modulus>>), FALSE>>}

\* The p-values adfuller and kpss may answer: below, at and above alpha.
PValues == {1, 5, 10}

\* The values model.aic may have.
Aics == {1, 2}

\* np.abs(model.arroots) of an order-k polynomial, in thousandths: a root is
\* at the floor (1001) or above it (1500).  No root for k <= 0, one for
\* k = 1, and for k >= 2 the two smallest moduli.
RootArrays(k) ==
  IF k <= 0 THEN {<< >>}
  ELSE IF k = 1 THEN {<<1001>>, <<1500>>}
  ELSE {<<1500, 1500>>, <<1500, 1001>>, <<1001, 1500>>}

\* The fit raised ValueError.
Failure == [raises |-> TRUE, aic |-> 0, arroots |-> << >>, maroots |-> << >>]

\* An order with a negative number of AR or MA lags: ARIMA rejects it with
\* ValueError.
Negative(ord) == ord[1] < 0 \/ ord[3] < 0

\* What sm.tsa.ARIMA(self.ts, order=order).fit(...) may answer for an order.
FitOutcomes(ord) ==
  IF Negative(ord) THEN {Failure}
  ELSE {Failure} \cup
       {[raises |-> FALSE, aic |-> a, arroots |-> ar, maroots |-> ma] :
          a \in Aics, ar \in RootArrays(ord[1]), ma \in RootArrays(ord[3])}

(* ------------------------------ values -------------------------------- *)

\* np.inf, the aicc __init__ stores.
Inf == [kind |-> "inf", num |-> 0, den |-> 1]

NaN == [kind |-> "nan", num |-> 0, den |-> 1]

\* None, the model __init__ stores.
None == [fitted |-> FALSE, aic |-> 0, arroots |-> << >>, maroots |-> << >>]

Abs(x) == IF x < 0 THEN 0 - x ELSE x

RECURSIVE Gcd(_, _)
Gcd(a, b) == IF b = 0 THEN a ELSE Gcd(b, a % b)

\* The rational num/den (den # 0) in lowest terms with a positive denominator.
Rational(num, den) ==
  LET g == Gcd(Abs(num), Abs(den))
      s == IF den < 0 THEN 0 - 1 ELSE 1
  IN  [kind |-> "fin", num |-> (s * num) \div g, den |-> (s * den) \div g]

\* a < b on floats: False when either is nan.
Less(a, b) ==
  IF a.kind = "nan" \/ b.kind = "nan" THEN FALSE
  ELSE IF a.kind = "inf" THEN FALSE
  ELSE IF b.kind = "inf" THEN TRUE
  ELSE a.num * b.den < b.num * a.den

\* a <= b on floats.
LessEq(a, b) ==
  IF a.kind = "nan" \/ b.kind = "nan" THEN FALSE
  ELSE IF b.kind = "inf" THEN TRUE
  ELSE IF a.kind = "inf" THEN FALSE
  ELSE a.num * b.den <= b.num * a.den

\* all(moduli > floor)
AllAbove(moduli, floor) == \A j \in 1..Len(moduli) : moduli[j] > floor

(* ------------------------------- state -------------------------------- *)

VARIABLES
  ts_len,        \* len(self.ts)
  conditions,    \* self.conditions
  full_search,   \* self.full_search
  d,             \* self.d: << >> while the object has no such attribute
  model,         \* self.model
  order,         \* self.order
  aicc,          \* self.aicc
  p_values,      \* self.p_values
  pc,            \* where find stands: idle, test, setup, seeds, grid, done, raised
  raised,        \* the exception find ended with, "" for none
  depth,         \* _test: how often ts.diff() was applied in this recursion
  verdicts,      \* how many calls of _test in this call of find met the
                 \* condition to difference further
  find_d,        \* find: the local d
  orders,        \* find: the list orders
  p_candidates,  \* find: p_candidates
  q_candidates,  \* find: q_candidates
  i,             \* find: the iteration the current loop is at (1-based)
  runs,          \* how often find was called on this object
  nfail,         \* how many fits raised ValueError in this call of find
  calls,         \* the candidates passed to _fit in this call of find
  best_p,        \* find: best_p
  best_q,        \* find: best_q
  minStable,     \* << >>, or <<the least aicc of the candidates of this call of
                 \* find that were fitted and have all root moduli above the
                 \* floor, the first candidate that had it, whether a later one had it too>>
  fits,          \* what the fitting collaborator answered the first of two
                 \* objects on one series, by (order, trend)
  other          \* whether this object is one of two on one series, and
                 \* how the first one's call of find ended

vars == <<ts_len, conditions, full_search, d, model, order, aicc, p_values,
          pc, raised, depth, verdicts, find_d, orders, p_candidates, q_candidates, i,
          runs, nfail, calls, best_p, best_q, minStable, fits, other>>

config == <<ts_len, conditions, full_search>>
incumbent == <<model, order, aicc>>
locals == <<find_d, orders, p_candidates, q_candidates, i, best_p, best_q>>
pairing == <<fits, other>>

(* ---------------------------- __init__ -------------------------------- *)

\* The object __init__ leaves, and find's locals before any call.
InitObject ==
  /\ d = << >>
  /\ model = None
  /\ order = [p |-> 0, d |-> 0, q |-> 0, trend |-> "nc"]
  /\ aicc = Inf
  /\ p_values = << >>
  /\ pc = "idle"
  /\ raised = ""
  /\ depth = 0
  /\ verdicts = 0
  /\ find_d = 0
  /\ orders = << >>
  /\ p_candidates = << >>
  /\ q_candidates = << >>
  /\ i = 1
  /\ runs = 0
  /\ nfail = 0
  /\ calls = << >>
  /\ best_p = 0
  /\ best_q = 0
  /\ minStable = << >>

\* other, for an object that is alone on its series.
Single == [phase |-> "single", ended |-> "", aicc |-> Inf, fitted |-> FALSE]

Init ==
  /\ ts_len \in SeriesLengths
  /\ \E c \in Configurations : conditions = c[1] /\ full_search = c[2]
  /\ InitObject
  /\ fits = << >>
  /\ other = Single

\* How many fits of orders without a negative term raised ValueError in
\* this call of find.
Refused ==
  nfail - Cardinality({j \in 1..Len(calls) : Negative(calls[j][1])})

\* What the fitting collaborator may answer this object for a candidate: a
\* fit is a function of the series, the order and the trend, so the second
\* of two objects on one series gets the answer the first one got.
Answers(cand) ==
  IF cand \in DOMAIN fits THEN {fits[cand]}
  ELSE IF Negative(cand[1]) THEN FitOutcomes(cand[1])
  ELSE {out \in FitOutcomes(cand[1]) : out.raises => Refused < MaxFail}

\* fits after the collaborator answered out for cand.
NoteAnswer(cand, out) ==
  IF other.phase = "first" /\ cand \notin DOMAIN fits
    THEN (cand :> out) @@ fits
    ELSE fits

(* --------------------------- _correct_aic ----------------------------- *)

\* _correct_aic(order, trend, aic).  numpy_ints tells whether p and q are
\* np.int64 (drawn from np.arange) or Python ints (the seed tuples): a
\* Python int division by zero raises ZeroDivisionError, an np.int64 one
\* answers inf (nan for 0/0) with a RuntimeWarning.
_correct_aic(ord, trend, aic, numpy_ints) ==
  LET k == IF trend = "c" THEN 1 ELSE 0
      n == ord[1] + ord[3] + k + 1
      den == ts_len - n - 1
      term == 2 * n * (n + 1)
  IN  IF den # 0
        THEN [raises |-> FALSE, value |-> Rational(aic * den + term, den)]
      ELSE IF ~numpy_ints
        THEN [raises |-> TRUE, value |-> NaN]
      ELSE [raises |-> FALSE, value |-> IF term = 0 THEN NaN ELSE Inf]

(* -------------------------------- _fit -------------------------------- *)

\* _fit(order, trend) when the fitting collaborator answers out: the
\* exception it ends with ("" for none) and the incumbent it leaves.
\* fitted_aicc and roots_ok report what it computed.
\* Improves without the comparison: any AICc that is a number is taken.
Improves_unchecked(c) == c.kind # "nan"

\* Improves with <= for <: an equal AICc is taken too.
Improves_or_equal(c) == LessEq(c, aicc)

\* aicc < self.aicc
Improves(c) == Less(c, aicc)

\* RootsOk without the check of the MA roots.
RootsOk_ar_only(out) == AllAbove(out.arroots, conditions[2])

\* invertible and stationary, as _fit computes them from the fitted model.
RootsOk(out) ==
  LET invertible == AllAbove(out.arroots, conditions[2])
      stationary == AllAbove(out.maroots, conditions[2])
  IN  invertible /\ stationary

_fit(ord, trend, out, numpy_ints) ==
  LET keep == [exc |-> "", accepted |-> FALSE, model |-> model, order |-> order,
               aicc |-> aicc, fitted_aicc |-> NaN, roots_ok |-> FALSE]
      c == _correct_aic(ord, trend, out.aic, numpy_ints)
  IN  IF out.raises THEN [keep EXCEPT !.exc = "ValueError"]
      ELSE IF c.raises THEN [keep EXCEPT !.exc = "ZeroDivisionError"]
      ELSE IF Improves(c.value) /\ RootsOk(out)
        THEN [exc |-> "", accepted |-> TRUE,
              model |-> [fitted |-> TRUE, aic |-> out.aic,
                         arroots |-> out.arroots, maroots |-> out.maroots],
              order |-> [p |-> ord[1], d |-> ord[2], q |-> ord[3], trend |-> trend],
              aicc |-> c.value, fitted_aicc |-> c.value, roots_ok |-> TRUE]
      ELSE [keep EXCEPT !.fitted_aicc = c.value,
                        !.roots_ok = RootsOk(out)]

\* minStable after an iteration that called _fit for cand.
NoteStable(r, cand) ==
  IF r.exc = "" /\ r.roots_ok
    THEN IF r.fitted_aicc.kind = "nan" THEN minStable
         ELSE IF minStable = << >> THEN <<r.fitted_aicc, cand, FALSE>>
         ELSE IF Less(r.fitted_aicc, minStable[1]) THEN <<r.fitted_aicc, cand, FALSE>>
         ELSE IF r.fitted_aicc = minStable[1]
           THEN <<minStable[1], minStable[2], TRUE>>
         ELSE minStable
    ELSE minStable

(* -------------------------------- find -------------------------------- *)

\* np.arange(lo, hi) as a list.
Arange(lo, hi) == IF hi > lo THEN [j \in 1..(hi - lo) |-> lo + j - 1] ELSE << >>

\* [x for x in xs if keep(x)]
RECURSIVE Filter(_, _)
Filter(xs, max_order) ==
  IF xs = << >> THEN << >>
  ELSE LET x == Head(xs)
       IN  IF ~(x < 0) \/ ~(x > max_order)
             THEN <<x>> \o Filter(Tail(xs), max_order)
             ELSE Filter(Tail(xs), max_order)

\* Candidates with the range one short: np.arange(best - 1, best + 1).
Candidates_short(best) == Filter(Arange(best - 1, best + 1), conditions[1])

\* Candidates with the range one wider at both ends.
Candidates_wide(best) == Filter(Arange(best - 2, best + 3), conditions[1])

\* [p for p in np.arange(best - 1, best + 2) if not p < 0 or not p > self.conditions[0]]
Candidates(best) == Filter(Arange(best - 1, best + 2), conditions[1])

\* The seed list orders of the stepwise search at differencing degree dd.
Seeds(dd) ==
  IF dd <= 1
    THEN << <<<<0, dd, 0>>, "c">>, <<<<0, dd, 0>>, "nc">>, <<<<1, dd, 0>>, "c">>,
            <<<<0, dd, 1>>, "c">>, <<<<2, dd, 2>>, "c">> >>
    ELSE << <<<<0, dd, 0>>, "nc">>, <<<<1, dd, 0>>, "nc">>, <<<<0, dd, 1>>, "nc">>,
            <<<<2, dd, 2>>, "nc">> >>

\* InList for a membership test that never finds the candidate.
InList_never(cand, list) == FALSE

\* (order, trend) in orders
InList(cand, list) == \E j \in 1..Len(list) : list[j] = cand

\* How many iterations the loops for p / for q / for trend make together.
GridSize == Len(p_candidates) * Len(q_candidates) * 2

\* The (order, trend) of iteration j of those loops: p outermost, then q,
\* then trend in ("c", "nc").
GridAt(j) ==
  LET z == j - 1
      p == p_candidates[(z \div (2 * Len(q_candidates))) + 1]
      q == q_candidates[((z \div 2) % Len(q_candidates)) + 1]
  IN  <<<<p, find_d, q>>, IF z % 2 = 0 THEN "c" ELSE "nc">>

\* Propagates without the except clause: every exception leaves find.
Propagates_all(exc) == exc # ""

\* try: self._fit(...) except ValueError: continue -- whether an exception
\* of _fit leaves find.
Propagates(exc) == exc \notin {"", "ValueError"}

\* Advance for a loop that takes the same item again.
Advance_stay(j) == j

\* The for loop goes on to its next item.
Advance(j) == j + 1

\* find starts: the locals of the call.
Enter ==
  /\ runs' = runs + 1
  /\ pc' = "test"
  /\ raised' = ""
  /\ depth' = 0
  /\ verdicts' = 0
  /\ find_d' = 0
  /\ orders' = << >>
  /\ p_candidates' = << >>
  /\ q_candidates' = << >>
  /\ i' = 1
  /\ best_p' = 0
  /\ best_q' = 0
  /\ nfail' = 0
  /\ calls' = << >>
  /\ minStable' = << >>
  /\ UNCHANGED <<config, incumbent, d, p_values, pairing>>

\* find is called on the object __init__ made.
Find ==
  /\ pc = "idle"
  /\ Enter

\* find is called again on the same object, after it returned.
FindAgain ==
  /\ pc = "done"
  /\ runs < MaxRuns
  /\ Enter

\* _get_differencing_degree: one call of _test, on the series differenced
\* depth times.  Reading self.d raises AttributeError while the object has
\* no attribute d.
Test ==
  /\ pc = "test"
  /\ \E p_adf \in PValues, p_kpss \in PValues :
       IF p_kpss < alpha \/ p_adf >= alpha
         THEN IF d = << >>
                THEN /\ verdicts' = verdicts + 1
                     /\ pc' = "raised"
                     /\ raised' = "AttributeError"
                     /\ UNCHANGED <<d, p_values, depth>>
                ELSE IF d[1] = max_d
                  THEN /\ verdicts' = verdicts + 1
                       /\ pc' = "setup"
                       /\ UNCHANGED <<raised, d, p_values, depth>>
                  ELSE /\ p_values' = (d[1] :> [adf |-> p_adf, kpss |-> p_kpss]) @@ p_values
                       /\ d' = <<d[1] + 1>>
                       /\ depth' = depth + 1
                       /\ verdicts' = verdicts + 1
                       /\ UNCHANGED <<pc, raised>>
         ELSE /\ pc' = "setup"
              /\ UNCHANGED <<raised, d, p_values, depth, verdicts>>
  /\ UNCHANGED <<config, incumbent, locals, runs, nfail, calls, minStable, pairing>>

\* find, from d = self.order["d"] to the choice of the candidates.
Setup ==
  /\ pc = "setup"
  /\ find_d' = order.d
  /\ i' = 1
  /\ IF full_search
       THEN /\ orders' = << >>
            /\ p_candidates' = Arange(0, conditions[1] + 1)
            /\ q_candidates' = Arange(0, conditions[1] + 1)
            /\ pc' = "grid"
       ELSE /\ orders' = Seeds(order.d)
            /\ UNCHANGED <<p_candidates, q_candidates>>
            /\ pc' = "seeds"
  /\ UNCHANGED <<config, incumbent, d, p_values, raised, depth, verdicts, best_p, best_q,
                 runs, nfail, calls, minStable, pairing>>

\* One iteration of for (order, trend) in orders.
SeedFit ==
  /\ pc = "seeds"
  /\ i <= Len(orders)
  /\ \E out \in Answers(orders[i]) :
       /\ fits' = NoteAnswer(orders[i], out)
       /\ LET r == _fit(orders[i][1], orders[i][2], out, FALSE)
          IN  /\ model' = r.model
              /\ order' = r.order
              /\ aicc' = r.aicc
              /\ nfail' = IF r.exc = "ValueError" THEN nfail + 1 ELSE nfail
              /\ minStable' = NoteStable(r, orders[i])
              /\ IF Propagates(r.exc)
                   THEN pc' = "raised" /\ raised' = r.exc /\ i' = i
                   ELSE pc' = "seeds" /\ raised' = raised /\ i' = Advance(i)
  /\ calls' = Append(calls, orders[i])
  /\ UNCHANGED <<config, d, p_values, depth, verdicts, find_d, orders,
                 p_candidates,
                 q_candidates, best_p, best_q, runs, other>>

\* The neighbourhood of the best seed.
Neighbourhood ==
  /\ pc = "seeds"
  /\ i > Len(orders)
  /\ best_p' = order.p
  /\ p_candidates' = Candidates(order.p)
  /\ best_q' = order.q
  /\ q_candidates' = Candidates(order.q)
  /\ pc' = "grid"
  /\ i' = 1
  /\ UNCHANGED <<config, incumbent, d, p_values, raised, depth, verdicts, find_d,
                 orders,
                 runs, nfail, calls, minStable, pairing>>

\* One iteration of for p / for q / for trend.
GridFit ==
  /\ pc = "grid"
  /\ i <= GridSize
  /\ IF InList(GridAt(i), orders)
       THEN /\ i' = Advance(i)
            /\ UNCHANGED <<incumbent, orders, nfail, calls, minStable, pc, raised,
                           fits>>
       ELSE \E out \in Answers(GridAt(i)) :
              /\ fits' = NoteAnswer(GridAt(i), out)
              /\ LET r == _fit(GridAt(i)[1], GridAt(i)[2], out, TRUE)
                 IN  /\ model' = r.model
                     /\ order' = r.order
                     /\ aicc' = r.aicc
                     /\ nfail' = IF r.exc = "ValueError" THEN nfail + 1 ELSE nfail
                     /\ minStable' = NoteStable(r, GridAt(i))
                     /\ orders' = IF r.exc = "" THEN Append(orders, GridAt(i))
                                  ELSE orders
                     /\ IF Propagates(r.exc)
                          THEN pc' = "raised" /\ raised' = r.exc /\ i' = i
                          ELSE pc' = "grid" /\ raised' = raised /\ i' = Advance(i)
              /\ calls' = Append(calls, GridAt(i))
  /\ UNCHANGED <<config, d, p_values, depth, verdicts, find_d, p_candidates,
                 q_candidates, best_p, best_q, runs, other>>

\* find returns.
Return ==
  /\ pc = "grid"
  /\ i > GridSize
  /\ pc' = "done"
  /\ UNCHANGED <<config, incumbent, d, p_values, raised, depth, verdicts, locals,
                 runs, nfail, calls, minStable, pairing>>

\* The steps find takes by itself once called.
Step == Test \/ Setup \/ SeedFit \/ Neighbourhood \/ GridFit \/ Return

Next == Find \/ Step

\* One call of find on a fresh object.
Spec == Init /\ [][Next]_vars

NextAgain == Find \/ FindAgain \/ Step

\* The life of an object on which find may be called again.
SpecAgain == Init /\ [][NextAgain]_vars

(* ---------------- two objects on one series, one per mode -------------- *)

\* HyndmanKhandakar(ts, conditions=(0, 1.001), full_search=True): the first
\* of two objects on one series.
InitModes ==
  /\ ts_len \in SeriesLengths
  /\ conditions = <<0, min_root_modulus>>
  /\ full_search = TRUE
  /\ InitObject
  /\ fits = << >>
  /\ other = [phase |-> "first", ended |-> "", aicc |-> Inf, fitted |-> FALSE]

\* After the first object's find ended: HyndmanKhandakar(ts, conditions) with
\* the same series and conditions, in the default (stepwise) mode.
Construct ==
  /\ other.phase = "first"
  /\ pc \in {"done", "raised"}
  /\ other' = [phase |-> "second", ended |-> pc, aicc |-> aicc,
               fitted |-> model.fitted]
  /\ full_search' = FALSE
  /\ d' = << >>
  /\ model' = None
  /\ order' = [p |-> 0, d |-> 0, q |-> 0, trend |-> "nc"]
  /\ aicc' = Inf
  /\ p_values' = << >>
  /\ pc' = "idle"
  /\ raised' = ""
  /\ depth' = 0
  /\ verdicts' = 0
  /\ find_d' = 0
  /\ orders' = << >>
  /\ p_candidates' = << >>
  /\ q_candidates' = << >>
  /\ i' = 1
  /\ runs' = 0
  /\ nfail' = 0
  /\ calls' = << >>
  /\ best_p' = 0
  /\ best_q' = 0
  /\ minStable' = << >>
  /\ UNCHANGED <<ts_len, conditions, fits>>

NextModes == Find \/ Step \/ Construct

SpecModes == InitModes /\ [][NextModes]_vars

(* ------------------------------ the claims ----------------------------- *)

\* A call of find is under way or has returned.
InRun == pc \in {"test", "setup", "seeds", "grid", "done"}

\* C1: at every point of a call of find, the incumbent's aicc is the least
\* aicc of the candidates of that call that were fitted and passed the root
\* check, and before any such candidate the incumbent is the sentinel
\* (model None, aicc inf).  Stated for every call of find on an object.
C1_IncumbentIsMinimumOfRun ==
  InRun =>
    IF minStable = << >> THEN model = None /\ aicc = Inf
    ELSE aicc = minStable[1]

\* C2: an accepted model has every AR root and every MA root of modulus
\* strictly above conditions[1].
C2_AcceptedRootsAboveFloor ==
  model.fitted =>
    /\ \A j \in 1..Len(model.arroots) : model.arroots[j] > conditions[2]
    /\ \A j \in 1..Len(model.maroots) : model.maroots[j] > conditions[2]

\* C2's case: find returned with an accepted model that has AR roots and
\* MA roots, which _fit checked.
C2_Witness ==
  /\ pc = "done"
  /\ model.fitted
  /\ Len(model.arroots) = 2
  /\ Len(model.maroots) = 1

C4_ExhaustiveAtLeastAsGood ==
  (other.phase = "second" /\ other.ended = "done" /\ pc = "done") =>
    LessEq(other.aicc, aicc)

\* C5: the estimator starts at degree 0, adds one per verdict to difference
\* further and stops at 2: once it met such a verdict it ends, without an
\* error, at the number of those verdicts, capped at 2.
C5_DegreeCountsVerdicts ==
  (pc # "test" /\ verdicts > 0) =>
    /\ raised = ""
    /\ d # << >>
    /\ d[1] = (IF verdicts < max_d THEN verdicts ELSE max_d)

\* C6: a fit that raises ValueError leaves model, order and aicc as they
\* were, and find goes on to the next candidate of the same loop.
C6_FitFailureIsSkipped ==
  [][nfail' = nfail + 1 =>
       /\ model' = model
       /\ order' = order
       /\ aicc' = aicc
       /\ pc' = pc
       /\ raised' = ""
       /\ i' = i + 1]_vars

\* C6's case: in the stepwise search a fit of the neighbourhood phase raised
\* ValueError (the candidate was passed to _fit and is not in orders), and
\* find went on and returned with an accepted model.
C6_Witness ==
  /\ ~full_search
  /\ pc = "done"
  /\ nfail = 1
  /\ \E j \in 1..Len(calls) : ~InList(calls[j], orders)
  /\ model.fitted

\* n - m - 1 for the incumbent's order: len(self.ts) - n - 1 of _correct_aic.
IncumbentDenominator ==
  ts_len - (order.p + order.q + (IF order.trend = "c" THEN 1 ELSE 0) + 1) - 1

\* C7: a candidate whose denominator n - m - 1 is <= 0 never becomes the
\* incumbent and never aborts find.
C7_DegenerateIsUnusable ==
  /\ raised # "ZeroDivisionError"
  /\ model.fitted => IncumbentDenominator > 0

\* C8: the incumbent's aicc never increases.
C8_AiccNonIncreasing == [][LessEq(aicc', aicc)]_vars

\* C8's case: candidates were accepted, rejected and failed: the incumbent
\* is a later candidate than the first, one fit raised ValueError and one
\* fitted candidate was not accepted.
C8_Witness ==
  /\ pc = "done"
  /\ full_search
  /\ model.fitted
  /\ order.p = 1
  /\ nfail = 1
  /\ aicc.kind = "fin"
  /\ Len(orders) >= 2

\* A call of find is under way.
Running == pc \in {"test", "setup", "seeds", "grid"}

\* The part of find the call is in, counted down to its end.
Phase ==
  CASE pc = "test" -> 4
    [] pc = "setup" -> 3
    [] pc = "seeds" -> 2
    [] pc = "grid" -> 1
    [] OTHER -> 0

\* What is left of that part: the differencings _test may still make, the
\* items the loop has still to take.
Remaining ==
  CASE pc = "test" -> IF d = << >> THEN 0 ELSE max_d - d[1]
    [] pc = "seeds" -> Len(orders) + 1 - i
    [] pc = "grid" -> GridSize + 1 - i
    [] OTHER -> 0

\* The guards of Test, Setup, SeedFit, Neighbourhood, GridFit and Return:
\* whether find can take a step.
StepEnabled ==
  CASE pc = "test" -> PValues # {}
    [] pc = "setup" -> TRUE
    [] pc = "seeds" -> i > Len(orders) \/ Answers(orders[i]) # {}
    [] pc = "grid" -> \/ i > GridSize
                      \/ InList(GridAt(i), orders)
                      \/ Answers(GridAt(i)) # {}
    [] OTHER -> FALSE

\* C9: a call of find ends, by returning or by raising: while it is under
\* way it can always take a step, and every step it takes brings it to a
\* later part of find or leaves less of the same part, of which there is
\* never less than nothing.
C9_FindTerminates ==
  /\ [](Running => StepEnabled)
  /\ [](Remaining >= 0)
  /\ [][Running => (Phase' < Phase
                      \/ (Phase' = Phase /\ Remaining' < Remaining))]_vars

\* C9's case: the exhaustive search over two candidates returned although
\* the fit of one of them raised ValueError.
C9_Witness ==
  /\ pc = "done"
  /\ full_search
  /\ nfail = MaxFail
  /\ Len(calls) = 2
  /\ Len(orders) = 1

\* The values of {best - 1, best, best + 1} within [0, max_order].
InRange(best) == {x \in (best - 1)..(best + 1) : 0 <= x /\ x <= conditions[1]}

\* C10: when the stepwise search returns, every (p, d, q, trend) with p and q
\* within one of best_p and best_q and within [0, max_order] was passed to
\* _fit in this call.
C10_NeighbourhoodIsEvaluated ==
  (pc = "done" /\ ~full_search) =>
    \A p \in InRange(best_p), q \in InRange(best_q), trend \in {"c", "nc"} :
      InList(<<<<p, find_d, q>>, trend>>, calls)

\* C10's case, the one of the repository's test: with the default conditions
\* the best seed is (2, d, 2) and the search returns (2, 0, 1) with a constant.
C10_Witness ==
  /\ pc = "done"
  /\ ~full_search
  /\ conditions[1] = default_max_order
  /\ best_p = 2
  /\ best_q = 2
  /\ order = [p |-> 2, d |-> 0, q |-> 1, trend |-> "c"]

\* No item of the list occurs twice.
NoDuplicates(list) ==
  \A j, k \in 1..Len(list) : j # k => list[j] # list[k]

\* C11: orders never holds an (order, trend) twice, no (order, trend) is
\* passed to _fit twice within a call of find, and the iteration of a
\* candidate that is already in orders passes nothing to _fit and leaves
\* model, order and aicc as they were.
C11_VisitedOnce ==
  /\ [](NoDuplicates(orders) /\ NoDuplicates(calls))
  /\ [][(pc = "grid" /\ i <= GridSize /\ InList(GridAt(i), orders)) =>
          /\ calls' = calls
          /\ orders' = orders
          /\ <<model, order, aicc>>' = <<model, order, aicc>>]_vars

\* C11's case: the stepwise search returned after the fit of a seed raised
\* ValueError (every valid candidate passed to _fit is in orders, so the
\* failure was not one of the neighbourhood phase) and the neighbourhood
\* held seeds, which were skipped.
C11_Witness ==
  /\ pc = "done"
  /\ ~full_search
  /\ Refused = 1
  /\ \A j \in 1..Len(calls) : ~Negative(calls[j][1]) => InList(calls[j], orders)
  /\ \E j \in 1..GridSize : InList(GridAt(j), Seeds(find_d))

\* C12: when find has returned with an accepted model, the p and the q of
\* self.order are each within [0, conditions[0]].
C12_FinalOrderWithinMaxOrder ==
  (pc = "done" /\ model.fitted) =>
    /\ 0 <= order.p /\ order.p <= conditions[1]
    /\ 0 <= order.q /\ order.q <= conditions[1]

(* ------------------- an inconsistent configuration -------------------- *)

\* HyndmanKhandakar(ts, conditions=(-1, 1.001), full_search=...): __init__
\* stores what it is given, whatever it is.
InitInvalid ==
  /\ ts_len \in SeriesLengths
  /\ conditions = <<-1, min_root_modulus>>
  /\ full_search \in BOOLEAN
  /\ InitObject
  /\ fits = << >>
  /\ other = Single

\* The life of an object made with max_order < 0.
SpecInvalid == InitInvalid /\ [][Next]_vars

\* C13: for an object made with max_order < 0 no unit-root test is run (find
\* gets no further than its call of the estimator) and no candidate is
\* passed to _fit.
C13_InvalidInputIsRejected ==
  conditions[1] < 0 =>
    /\ pc \in {"idle", "test"}
    /\ depth = 0
    /\ verdicts = 0
    /\ calls = << >>

C15_NeighbourhoodWithinBounds ==
  ~full_search =>
    /\ \A j \in 1..Len(calls) :
         j > Len(Seeds(find_d)) =>
           /\ 0 <= calls[j][1][1] /\ calls[j][1][1] <= conditions[1]
           /\ 0 <= calls[j][1][3] /\ calls[j][1][3] <= conditions[1]
    /\ \A j \in 1..Len(p_candidates) :
         0 <= p_candidates[j] /\ p_candidates[j] <= conditions[1]
    /\ \A j \in 1..Len(q_candidates) :
         0 <= q_candidates[j] /\ q_candidates[j] <= conditions[1]

\* C16: when the estimator has ended, self.d is the number of calls of _test
\* that met the condition to difference further, at most 2, and 0 when the
\* first call did not meet it.
C16_DegreeIsCountOfContinuations ==
  (pc \notin {"idle", "test"}) =>
    /\ d # << >>
    /\ d[1] = (IF verdicts < max_d THEN verdicts ELSE max_d)

\* C17: when the estimator has ended without an error, p_values has an entry
\* for each degree at which adfuller and kpss were run: the series was
\* tested as given and after each of the depth differencings, so at the
\* degrees 0..depth.
C17_RecordCoversTestedDegrees ==
  (pc \notin {"idle", "test"} /\ raised = "") =>
    DOMAIN p_values = 0..depth

\* C18: while the loops for p / for q / for trend run and after them, every
\* candidate passed to _fit in this call of find is in orders, whatever its
\* evaluation came to.
C18_AttemptedIsVisited ==
  (pc \in {"grid", "done"}) =>
    \A j \in 1..Len(calls) : InList(calls[j], orders)

\* C19: self.order is replaced only by a candidate of strictly lower AICc,
\* so a candidate whose AICc equals the incumbent's leaves it in place; and
\* among the fitted candidates that passed the root check, the incumbent is
\* the first that had the least AICc.
C19_FirstEvaluatedWins ==
  /\ [][order' # order => Less(aicc', aicc)]_vars
  /\ [](InRun /\ minStable # << >> /\ minStable[1].kind = "fin" =>
          order = [p |-> minStable[2][1][1], d |-> minStable[2][1][2],
                   q |-> minStable[2][1][3], trend |-> minStable[2][2]])

\* C19's case: find returned after two or more stable candidates had the
\* least AICc, and the incumbent has that AICc.
C19_Witness ==
  /\ pc = "done"
  /\ model.fitted
  /\ minStable # << >>
  /\ minStable[3]
  /\ aicc = minStable[1]

\* C20: in the stepwise search the candidate lists are made once, when the
\* seeds are done, around the p and q the incumbent has then, and stay as
\* they are while the loops run: every candidate passed to _fit after the
\* seeds has its p within one of best_p and its q within one of best_q,
\* whatever the incumbent has become since.
C20_NeighbourhoodIsNotRecentred ==
  /\ [](~full_search =>
          \A j \in 1..Len(calls) :
            j > Len(Seeds(find_d)) =>
              /\ Abs(calls[j][1][1] - best_p) <= 1
              /\ Abs(calls[j][1][3] - best_q) <= 1)
  /\ [][(pc = "seeds" /\ pc' = "grid") =>
          best_p' = order.p /\ best_q' = order.q]_vars
  /\ [][pc = "grid" =>
          <<best_p, best_q, p_candidates, q_candidates>>'
            = <<best_p, best_q, p_candidates, q_candidates>>]_vars

\* C20's case: the stepwise search returned with an incumbent that a
\* candidate of the neighbourhood made, one step from the best seed in p and
\* in q, after going through the whole neighbourhood of the best seed.
C20_Witness ==
  /\ pc = "done"
  /\ ~full_search
  /\ model.fitted
  /\ order.p = best_p + 1
  /\ order.q = best_q + 1
  /\ Len(calls) > Len(Seeds(find_d))

====
